---- MODULE Spec2Model ----
(***************************************************************************)
(* Model of sp/models.py (django-saml-sp): the IdP record with its         *)
(* certificate and metadata operations, the SP settings overlay, the       *)
(* attribute mappings, the federated identities and redirect resolution.   *)
(*                                                                         *)
(* A database row and the in-memory model instances loaded from it are     *)
(* distinct: the methods of IdP assign to fields of `self` and only        *)
(* self.save() writes the instance to the row (all columns).               *)
(***************************************************************************)
EXTENDS Integers, Sequences, FiniteSets, TLC

\* ------------------------------------------------------------------ bounds
NumInstances == 2   \* in-memory IdP instances of the one stored IdP row
MaxClock == 3       \* timezone.now() readings taken
MaxKeys == 1        \* RSA keys generated
MaxAttrs == 2       \* IdPAttribute rows
MaxUsers == 2       \* IdPUser rows

\* ------------------------------------------------------- program constants
ValidityDays == 3650

VARIABLES
    db,        \* the stored IdP row (columns the operations touch)
    inst,      \* inst[i]: fields of in-memory instance i
    clock,     \* the next value of timezone.now(), in days
    nkeys,     \* number of keys rsa.generate_private_key has produced
    lock,      \* caller-side row lock: 0 free, i held by instance i
    lastOp,    \* the last call on the IdP record and how it ended
    lastGen,   \* history: material of the last successful generate_certificate
    lastImp    \* history: data of the last successful import_metadata

persistVars == <<db, inst, clock, nkeys, lock, lastOp, lastGen, lastImp>>

VARIABLES
    cfg,       \* fields of the IdP instance that IdP.settings reads
    built      \* what the last evaluation of IdP.settings gave

settingsVars == <<cfg, built>>

VARIABLES
    attributes,  \* IdPAttribute rows, attributes[pk]
    attrOp,      \* the last create / edit of a row and how it ended
    callIn,      \* the IdP and the parsed assertion of a login
    attrCall     \* the last get_nameid / mapped_attributes call

attrVars == <<attributes, attrOp, callIn, attrCall>>

VARIABLES
    users,     \* IdPUser rows, users[pk]
    userOp     \* the last create / edit of a row and how it ended

userVars == <<users, userOp>>

VARIABLES
    rcfg,      \* the IdP's redirect fields and the Django settings defaults
    rcall      \* the last get_login_redirect / get_logout_redirect call

redirVars == <<rcfg, rcall>>

Instances == 1..NumInstances

\* ---------------------------------------------------------------- values
NULL == 0                       \* NULL DateTimeField / blank key
BlankCert == [key |-> 0, not_after |-> NULL]
MetadataUrl == "https://idp.example/metadata"
DocA == "<EntityDescriptor A/>"
DocB == "<EntityDescriptor B NameIDFormat authnRequestsSigned/>"
Garbage == "<Entity"
RemoteDocs == {DocB, Garbage}

\* A settings dictionary is a set of <<top-level key, sub-key, value>>.
\* JSON text: blank (not JSON) or the serialization of a dictionary.
BlankText == [blank |-> TRUE, obj |-> {}]
JsonDumps(d) == [blank |-> FALSE, obj |-> d]

\* OneLogin_Saml2_IdPMetadataParser.parse succeeds on well-formed metadata
WellFormed(xml) == xml \in {DocA, DocB}

ParseMetadata(xml) ==
    IF xml = DocA
    THEN {<<"idp", "entityId", "idp-A">>}
    ELSE {<<"idp", "entityId", "idp-B">>,
          <<"sp", "NameIDFormat", "emailAddress">>,
          <<"security", "authnRequestsSigned", "True">>}

\* ----------------------------------------------------------------- IdP row
\* the administrator either sets the metadata URL or enters the XML
InitConfigs == {<<MetadataUrl, "">>, <<"", DocA>>, <<"", Garbage>>}

InitRows ==
    { [private_key |-> 0, x509_certificate |-> BlankCert,
       certificate_expires |-> NULL, metadata_url |-> c[1],
       metadata_xml |-> c[2],
       saml_settings |-> BlankText, last_import |-> NULL] :
         c \in InitConfigs }

GenMaterial(r) == [private_key |-> r.private_key,
                   x509_certificate |-> r.x509_certificate,
                   certificate_expires |-> r.certificate_expires]

ImpData(r) == [metadata_xml |-> r.metadata_xml,
               saml_settings |-> r.saml_settings,
               last_import |-> r.last_import]

InitPersist ==
    /\ db \in InitRows
    /\ inst = [i \in Instances |-> db]
    /\ clock = 1
    /\ nkeys = 0
    /\ lock = 0
    /\ lastOp = [op |-> "none", outcome |-> "none"]
    /\ lastGen = GenMaterial(db)
    /\ lastImp = ImpData(db)

\* Model.save(): UPDATE of every column from the instance
save(self) == self

\* variant: the caller keeps using the instance it already holds
loadStale(i) ==
    /\ inst' = inst
    /\ lastOp' = [op |-> "load", outcome |-> "ok"]
    /\ UNCHANGED <<db, clock, nkeys, lastGen, lastImp>>

\* IdP.objects.get(...) / refresh_from_db: the instance takes the row's columns
load(i) ==
    /\ inst' = [inst EXCEPT ![i] = db]
    /\ lastOp' = [op |-> "load", outcome |-> "ok"]
    /\ UNCHANGED <<db, clock, nkeys, lastGen, lastImp>>

\* ---------------------------------------------------- generate_certificate
\* where the call raises: rsa.generate_private_key (241), key.private_bytes
\* (244), x509.NameAttribute on the netloc (249), CertificateBuilder...sign
\* (253-263); "ok" runs to self.save() (267)
GenOutcomes == {"keygen", "serialize", "name", "sign", "ok"}

\* the fields of self when the call ends with `outcome`
GenCertSelf(self, outcome, k, now) ==
    LET s1 == IF outcome \in {"keygen", "serialize"} THEN self
              ELSE [self EXCEPT !.private_key = k]
        s2 == IF outcome \in {"keygen", "serialize", "name"} THEN s1
              ELSE [s1 EXCEPT !.certificate_expires = now + ValidityDays]
    IN  IF outcome = "ok"
        THEN [s2 EXCEPT !.x509_certificate =
                 [key |-> k, not_after |-> s2.certificate_expires]]
        ELSE s2

\* variant: self.save() placed before the certificate is signed
GenCertSavesEarly(outcome) == outcome \in {"sign", "ok"}

\* self.save() is the last statement: reached only when nothing raised
GenCertSaves(outcome) == outcome = "ok"

generate_certificate(i) ==
    \E outcome \in GenOutcomes :
        LET k == nkeys + 1
            self == GenCertSelf(inst[i], outcome, k, clock)
        IN  /\ outcome # "keygen" => nkeys < MaxKeys
            /\ outcome \in {"sign", "ok"} => clock < MaxClock
            /\ inst' = [inst EXCEPT ![i] = self]
            /\ nkeys' = IF outcome = "keygen" THEN nkeys ELSE k
            /\ clock' = IF outcome \in {"sign", "ok"} THEN clock + 1 ELSE clock
            /\ db' = IF GenCertSaves(outcome) THEN save(self) ELSE db
            /\ lastGen' = IF outcome = "ok" THEN GenMaterial(self) ELSE lastGen
            /\ lastOp' = [op |-> "generate_certificate", outcome |-> outcome]
            /\ UNCHANGED lastImp

\* --------------------------------------------------------- import_metadata
\* get_metadata(url) returns a document or raises; "none": no URL configured
FetchResults(self) ==
    IF self.metadata_url # "" THEN RemoteDocs \cup {"raise"} ELSE {"none"}

ImportOutcome(self, fetched) ==
    IF fetched = "raise" THEN "fetch_failed"
    ELSE LET xml == IF fetched = "none" THEN self.metadata_xml ELSE fetched
         IN  IF WellFormed(xml) THEN "ok" ELSE "parse_failed"

\* the fields of self when the call ends
ImportSelf(self, fetched, now) ==
    LET s1 == IF fetched \in {"raise", "none"} THEN self
              ELSE [self EXCEPT !.metadata_xml = fetched]
    IN  IF ImportOutcome(self, fetched) = "ok"
        THEN [s1 EXCEPT !.saml_settings = JsonDumps(ParseMetadata(s1.metadata_xml)),
                        !.last_import = now]
        ELSE s1

\* variant: self.save() right after the fetch, before the parse
ImportSavesEarly(outcome) == outcome \in {"parse_failed", "ok"}

\* self.save() is the last statement: reached only when nothing raised
ImportSaves(outcome) == outcome = "ok"

import_metadata(i) ==
    \E fetched \in FetchResults(inst[i]) :
        LET outcome == ImportOutcome(inst[i], fetched)
            self == ImportSelf(inst[i], fetched, clock)
        IN  /\ outcome = "ok" => clock < MaxClock
            /\ inst' = [inst EXCEPT ![i] = self]
            /\ clock' = IF outcome = "ok" THEN clock + 1 ELSE clock
            /\ db' = IF ImportSaves(outcome) THEN save(self) ELSE db
            /\ lastImp' = IF outcome = "ok" THEN ImpData(self) ELSE lastImp
            /\ lastOp' = [op |-> "import_metadata", outcome |-> outcome]
            /\ UNCHANGED <<nkeys, lastGen>>

\* ------------------------------------------------- sp_settings / settings
BaseUrl == "https://sp.example"

\* reverse(name, kwargs=self.url_params), "/" on NoReverseMatch
get_url(self, name, default) ==
    IF self.url_resolves THEN "/sso/" \o self.url_param \o "/" \o name \o "/"
    ELSE default

get_absolute_url(self) == get_url(self, "sp-idp-metadata", "/")

get_entity_id(self) ==
    IF self.entity_id # "" THEN self.entity_id
    ELSE self.base_url \o get_absolute_url(self)

get_acs(self) == self.base_url \o get_url(self, "sp-idp-acs", "/")

get_slo(self) == self.base_url \o get_url(self, "sp-idp-slo", "/")

\* a top-level key with a scalar value has the empty sub-key
sp_settings(self) ==
    {<<"strict", "", "True">>,
     <<"sp", "NameIDFormat",
       "urn:oasis:names:tc:SAML:1.1:nameid-format:unspecified">>,
     <<"sp", "entityId", get_entity_id(self)>>,
     <<"sp", "assertionConsumerService.url", get_acs(self)>>,
     <<"sp", "assertionConsumerService.binding",
       "urn:oasis:names:tc:SAML:2.0:bindings:HTTP-POST">>,
     <<"sp", "singleLogoutService.url", get_slo(self)>>,
     <<"sp", "singleLogoutService.binding",
       "urn:oasis:names:tc:SAML:2.0:bindings:HTTP-Redirect">>,
     <<"sp", "x509cert", self.x509_certificate>>,
     <<"sp", "privateKey", self.private_key>>,
     <<"security", "wantAttributeStatement", self.require_attributes>>,
     <<"security", "metadataValidUntil", self.certificate_expires>>,
     <<"security", "requestedAuthnContextComparison", self.authn_comparison>>,
     <<"security", "requestedAuthnContext", self.authn_context>>,
     <<"contactPerson", "technical.givenName", self.contact_name>>,
     <<"contactPerson", "technical.emailAddress", self.contact_email>>}

TopKeys(d) == {t[1] : t \in d}

\* variant: keys the dictionary already has are kept (dict.setdefault per key)
DictUpdateKeep(d, other) == d \cup {t \in other : t[1] \notin TopKeys(d)}

\* dict.update(other): each top-level key of other replaces that key of d whole
DictUpdate(d, other) == {t \in d : t[1] \notin TopKeys(other)} \cup other

\* json.loads(self.saml_settings) raises on blank text
settings_of(self) ==
    IF self.saml_settings.blank
    THEN [called |-> TRUE, raised |-> "JSONDecodeError", dict |-> {}]
    ELSE [called |-> TRUE, raised |-> "",
          dict |-> DictUpdate(self.saml_settings.obj, sp_settings(self))]

HostileBlob ==
    {<<"idp", "entityId", "idp-A">>,
     <<"strict", "", "False">>,
     <<"sp", "x509cert", "BOGUS">>,
     <<"sp", "entityId", "urn:evil">>,
     <<"sp", "attributeConsumingService", "extra">>,
     <<"security", "wantAttributeStatement", "False">>,
     <<"security", "wantMessagesSigned", "False">>,
     <<"contactPerson", "technical.givenName", "Mallory">>,
     <<"contactPerson", "support.givenName", "Mallory">>}

Blobs ==
    {BlankText, JsonDumps({}), JsonDumps(ParseMetadata(DocA)),
     JsonDumps(ParseMetadata(DocB)),
     JsonDumps({<<"idp", "entityId", "idp-A">>, <<"sp", "x509cert", "BOGUS">>}),
     JsonDumps(HostileBlob)}

CfgFixed(blob, eid, res, cert, key, req, exp) ==
    [saml_settings |-> blob, entity_id |-> eid, base_url |-> BaseUrl,
     url_resolves |-> res, url_param |-> "acme",
     x509_certificate |-> cert, private_key |-> key,
     require_attributes |-> req, certificate_expires |-> exp,
     authn_comparison |-> "exact",
     authn_context |-> "[PasswordProtectedTransport]",
     contact_name |-> "Admin", contact_email |-> "admin@sp.example"]

Cfgs ==
    { CfgFixed(blob, eid, res, cert, key, req, exp) :
        blob \in Blobs, eid \in {"", "urn:sp"}, res \in BOOLEAN,
        cert \in {"", "CERT-PEM"}, key \in {"", "KEY-PEM"},
        req \in {"True", "False"}, exp \in {"None", "2036-11-03"} }

NotBuilt == [called |-> FALSE, raised |-> "", dict |-> {}]

SettingsIdle ==
    /\ cfg = CfgFixed(BlankText, "", TRUE, "", "", "True", "None")
    /\ built = NotBuilt

InitSettings == cfg \in Cfgs /\ built = NotBuilt

\* evaluation of the IdP.settings property
settings ==
    /\ built' = settings_of(cfg)
    /\ UNCHANGED cfg

\* ------------------------------------------------------------- redirects
None == "<None>"      \* Python None among string values

Truthy(v) == v # None /\ v # ""

\* Python `a or b`
Or(a, b) == IF Truthy(a) THEN a ELSE b

\* variant: the IdP's field consulted before the caller's argument
redirect_idp_first(redir, idp_redirect, default) ==
    Or(Or(idp_redirect, redir), default)

\* redir or self.<x>_redirect or settings.<X>_REDIRECT_URL
redirect_of(redir, idp_redirect, default) ==
    Or(Or(redir, idp_redirect), default)

RedirArgs == {None, "", "/next", "/idp-home"}

InitRedir ==
    /\ rcfg \in [login_redirect : {"", "/idp-home"},
                  logout_redirect : {"", "/idp-bye"},
                  LOGIN_REDIRECT_URL : {"/accounts/profile/", ""},
                  LOGOUT_REDIRECT_URL : {None, "/goodbye"}]
    /\ rcall = [op |-> "none", redir |-> None, result |-> None]

RedirIdle ==
    /\ rcfg = [login_redirect |-> "", logout_redirect |-> "",
               LOGIN_REDIRECT_URL |-> "/accounts/profile/",
               LOGOUT_REDIRECT_URL |-> None]
    /\ rcall = [op |-> "none", redir |-> None, result |-> None]

get_login_redirect(redir) ==
    /\ rcall' = [op |-> "get_login_redirect", redir |-> redir,
                 result |-> redirect_of(redir, rcfg.login_redirect,
                                        rcfg.LOGIN_REDIRECT_URL)]
    /\ UNCHANGED rcfg

get_logout_redirect(redir) ==
    /\ rcall' = [op |-> "get_logout_redirect", redir |-> redir,
                 result |-> redirect_of(redir, rcfg.logout_redirect,
                                        rcfg.LOGOUT_REDIRECT_URL)]
    /\ UNCHANGED rcfg

\* ----------------------------------------------------------- IdPAttribute
IdPs == {1, 2}
SamlAttributes == {"email", "uid"}
MappedNames == {"", "username", "email"}

AttrRows == [idp : IdPs, saml_attribute : SamlAttributes,
             mapped_name : MappedNames, is_nameid : BOOLEAN]

\* variant: the constraint also spans mapped_name
AttrConflictLoose(rows, pk, row) ==
    \E q \in DOMAIN rows :
        /\ q # pk
        /\ rows[q].idp = row.idp
        /\ rows[q].saml_attribute = row.saml_attribute
        /\ rows[q].mapped_name = row.mapped_name

\* unique_together = [("idp", "saml_attribute")]: another row (pk 0: none
\* yet) of the same IdP has the same SAML attribute
AttrConflict(rows, pk, row) ==
    \E q \in DOMAIN rows :
        /\ q # pk
        /\ rows[q].idp = row.idp
        /\ rows[q].saml_attribute = row.saml_attribute

NoCall == [op |-> "none"]

NoLogin == [idp |-> 1, saml |-> [attrs |-> <<>>, nameid |-> ""]]

AttrIdle ==
    /\ attributes = <<>>
    /\ attrOp = [op |-> "none", outcome |-> "none"]
    /\ callIn = NoLogin
    /\ attrCall = NoCall

\* IdPAttribute.objects.create(...)
CreateAttribute(row) ==
    /\ Len(attributes) < MaxAttrs
    /\ IF AttrConflict(attributes, 0, row)
       THEN /\ attrOp' = [op |-> "create", outcome |-> "IntegrityError"]
            /\ UNCHANGED attributes
       ELSE /\ attrOp' = [op |-> "create", outcome |-> "ok"]
            /\ attributes' = Append(attributes, row)
    /\ UNCHANGED <<callIn, attrCall>>

\* an existing row edited and saved (same IdP)
EditAttribute(pk, row) ==
    /\ pk \in DOMAIN attributes
    /\ row.idp = attributes[pk].idp
    /\ IF AttrConflict(attributes, pk, row)
       THEN /\ attrOp' = [op |-> "edit", outcome |-> "IntegrityError"]
            /\ UNCHANGED attributes
       ELSE /\ attrOp' = [op |-> "edit", outcome |-> "ok"]
            /\ attributes' = [attributes EXCEPT ![pk] = row]
    /\ UNCHANGED <<callIn, attrCall>>

\* ------------------------------------------------------- parsed assertions
EmailValues == {<<>>, <<"a@x.com">>, <<"b@x.com", "a@x.com">>}
UidValues == {<<"u1">>}
LibNameId == "lib-nameid"

\* saml.attrs: the attributes the assertion carries, each a list of values
Assertions ==
    { [attrs |-> f, nameid |-> LibNameId] :
        f \in UNION { [S -> EmailValues \cup UidValues] :
                         S \in SUBSET SamlAttributes } }

SamlInputs ==
    { a \in Assertions :
        /\ "email" \in DOMAIN a.attrs => a.attrs["email"] \in EmailValues
        /\ "uid" \in DOMAIN a.attrs => a.attrs["uid"] \in UidValues }

\* saml.get_attribute(name): the list of values, or None
HasAttribute(saml, name) == name \in DOMAIN saml.attrs

\* the tables the creates and edits above can leave behind
StoredTables ==
    { t \in UNION { [1..n -> AttrRows] : n \in 0..MaxAttrs } :
        \A pk \in DOMAIN t : ~AttrConflict(t, pk, t[pk]) }

\* a login at an IdP: the stored mappings and the assertion it presents
InitLogin ==
    /\ attributes \in StoredTables
    /\ attrOp = [op |-> "none", outcome |-> "none"]
    /\ callIn \in [idp : IdPs, saml : SamlInputs]
    /\ attrCall = NoCall

\* ---------------------------------------------------------- get_nameid
\* self.attributes.filter(is_nameid=True): pks of the IdP's flagged rows
NameIdPks(rows, idp) ==
    {q \in DOMAIN rows : rows[q].idp = idp /\ rows[q].is_nameid}

\* .first() of an unordered queryset orders by pk
First(pks) == CHOOSE q \in pks : \A r \in pks : q <= r

\* variant: the last value of the attribute instead of the first
get_nameid_last(rows, idp, saml) ==
    IF NameIdPks(rows, idp) # {}
    THEN LET name == rows[First(NameIdPks(rows, idp))].saml_attribute
         IN  IF ~HasAttribute(saml, name)
             THEN [raised |-> "TypeError", value |-> ""]
             ELSE IF saml.attrs[name] = <<>>
             THEN [raised |-> "IndexError", value |-> ""]
             ELSE [raised |-> "",
                   value |-> saml.attrs[name][Len(saml.attrs[name])]]
    ELSE [raised |-> "", value |-> saml.nameid]

\* None[0] raises TypeError, [][0] raises IndexError
get_nameid_of(rows, idp, saml) ==
    IF NameIdPks(rows, idp) # {}
    THEN LET name == rows[First(NameIdPks(rows, idp))].saml_attribute
         IN  IF ~HasAttribute(saml, name)
             THEN [raised |-> "TypeError", value |-> ""]
             ELSE IF saml.attrs[name] = <<>>
             THEN [raised |-> "IndexError", value |-> ""]
             ELSE [raised |-> "", value |-> Head(saml.attrs[name])]
    ELSE [raised |-> "", value |-> saml.nameid]

get_nameid(idp, saml) ==
    /\ attrCall' = [op |-> "get_nameid", idp |-> idp, saml |-> saml,
                    result |-> get_nameid_of(attributes, idp, saml)]
    /\ UNCHANGED <<attributes, attrOp, callIn>>

\* ------------------------------------------------------ mapped_attributes
\* self.attributes.exclude(mapped_name=""): pks of the IdP's mapped rows
MappedPks(rows, idp) ==
    {q \in DOMAIN rows : rows[q].idp = idp /\ rows[q].mapped_name # ""}

\* the model has no Meta.ordering and the queryset no order_by: the rows
\* come in an order the database chooses, any sequence of the pks
Orders(pks) ==
    { o \in [1..Cardinality(pks) -> pks] : \A q \in pks : \E n \in DOMAIN o : o[n] = q }

\* an OrderedDict is a sequence of <<key, value>> in insertion order
DictKeys(d) == {d[n][1] : n \in DOMAIN d}

\* variant: a key already in the dictionary keeps its value (setdefault)
DictSetDefault(d, k, v) ==
    IF k \in DictKeys(d) THEN d ELSE Append(d, <<k, v>>)

\* attrs[k] = v: a key already in the dictionary keeps its position
DictSet(d, k, v) ==
    IF k \in DictKeys(d)
    THEN [n \in DOMAIN d |-> IF d[n][1] = k THEN <<k, v>> ELSE d[n]]
    ELSE Append(d, <<k, v>>)

RECURSIVE MapLoop(_, _, _, _)
\* the for loop over the rows order[n..], attrs so far in d
MapLoop(rows, saml, order, d) ==
    IF order = <<>> THEN d
    ELSE LET attr == rows[Head(order)]
         IN  MapLoop(rows, saml, Tail(order),
                     IF HasAttribute(saml, attr.saml_attribute)
                     THEN DictSet(d, attr.mapped_name,
                                  saml.attrs[attr.saml_attribute])
                     ELSE d)

mapped_attributes(idp, saml) ==
    \E order \in Orders(MappedPks(attributes, idp)) :
        /\ attrCall' = [op |-> "mapped_attributes", idp |-> idp,
                        saml |-> saml, order |-> order,
                        result |-> MapLoop(attributes, saml, order, <<>>)]
        /\ UNCHANGED <<attributes, attrOp, callIn>>

\* ---------------------------------------------------------------- IdPUser
NameIds == {"alice", "bob"}
ContentTypes == {"auth.user", "crm.contact"}
UserIds == {"7", "8"}

UserRows == [idp : IdPs, nameid : NameIds, content_type : ContentTypes,
             user_id : UserIds]

\* variant: only ("idp", "nameid") is declared unique
UserConflictNameOnly(rows, pk, row) ==
    \E q \in DOMAIN rows :
        /\ q # pk
        /\ rows[q].idp = row.idp
        /\ rows[q].nameid = row.nameid

\* unique_together = [("idp", "nameid"), ("idp", "content_type", "user_id")]
UserConflict(rows, pk, row) ==
    \E q \in DOMAIN rows :
        /\ q # pk
        /\ rows[q].idp = row.idp
        /\ \/ rows[q].nameid = row.nameid
           \/ /\ rows[q].content_type = row.content_type
              /\ rows[q].user_id = row.user_id

UserIdle ==
    /\ users = <<>>
    /\ userOp = [op |-> "none", outcome |-> "none", pk |-> 0,
                 row |-> [idp |-> 1, nameid |-> "alice",
                          content_type |-> "auth.user", user_id |-> "7"]]

\* IdPUser.objects.create(...)
CreateUser(row) ==
    /\ Len(users) < MaxUsers
    /\ IF UserConflict(users, 0, row)
       THEN /\ userOp' = [op |-> "create", outcome |-> "IntegrityError",
                          pk |-> 0, row |-> row]
            /\ UNCHANGED users
       ELSE /\ userOp' = [op |-> "create", outcome |-> "ok",
                          pk |-> Len(users) + 1, row |-> row]
            /\ users' = Append(users, row)

\* an existing link reassigned and saved
EditUser(pk, row) ==
    /\ pk \in DOMAIN users
    /\ IF UserConflict(users, pk, row)
       THEN /\ userOp' = [op |-> "edit", outcome |-> "IntegrityError",
                          pk |-> pk, row |-> row]
            /\ UNCHANGED users
       ELSE /\ userOp' = [op |-> "edit", outcome |-> "ok",
                          pk |-> pk, row |-> row]
            /\ users' = [users EXCEPT ![pk] = row]

\* ---------------------------------------------------------- specifications
vars == <<persistVars, settingsVars, attrVars, userVars, redirVars>>

Init == InitPersist /\ SettingsIdle /\ AttrIdle /\ UserIdle /\ RedirIdle

Next ==
    /\ \E i \in Instances :
          \/ load(i) /\ UNCHANGED lock
          \/ generate_certificate(i) /\ UNCHANGED lock
          \/ import_metadata(i) /\ UNCHANGED lock
    /\ UNCHANGED <<settingsVars, attrVars, userVars, redirVars>>

Spec == Init /\ [][Next]_vars

\* ------------------------------------------------ caller-serialized calls
\* select_for_update: the caller takes the row lock and loads the record
SerialLoad(i) == lock = 0 /\ load(i) /\ lock' = i
SerialGenerate(i) == lock = i /\ generate_certificate(i) /\ lock' = 0
SerialImport(i) == lock = i /\ import_metadata(i) /\ lock' = 0

NextSerial ==
    /\ \E i \in Instances :
          SerialLoad(i) \/ SerialGenerate(i) \/ SerialImport(i)
    /\ UNCHANGED <<settingsVars, attrVars, userVars, redirVars>>

SpecSerial == Init /\ [][NextSerial]_vars

PersistIdle == InitPersist /\ db.metadata_url = "" /\ db.metadata_xml = DocA

InitSettingsSpec ==
    InitSettings /\ PersistIdle /\ AttrIdle /\ UserIdle /\ RedirIdle

NextSettings ==
    settings /\ UNCHANGED <<persistVars, attrVars, userVars, redirVars>>

SpecSettings == InitSettingsSpec /\ [][NextSettings]_vars

InitRedirSpec ==
    InitRedir /\ PersistIdle /\ SettingsIdle /\ AttrIdle /\ UserIdle

NextRedir ==
    /\ \E redir \in RedirArgs :
          get_login_redirect(redir) \/ get_logout_redirect(redir)
    /\ UNCHANGED <<persistVars, settingsVars, attrVars, userVars>>

SpecRedirect == InitRedirSpec /\ [][NextRedir]_vars

InitAttrSpec ==
    AttrIdle /\ PersistIdle /\ SettingsIdle /\ UserIdle /\ RedirIdle

NextAttr ==
    /\ \/ \E row \in AttrRows : CreateAttribute(row)
       \/ \E pk \in 1..MaxAttrs, row \in AttrRows : EditAttribute(pk, row)
    /\ UNCHANGED <<persistVars, settingsVars, userVars, redirVars>>

SpecAttrs == InitAttrSpec /\ [][NextAttr]_vars

InitMapperSpec ==
    InitLogin /\ PersistIdle /\ SettingsIdle /\ UserIdle /\ RedirIdle

NextMapper ==
    /\ \/ get_nameid(callIn.idp, callIn.saml)
       \/ mapped_attributes(callIn.idp, callIn.saml)
    /\ UNCHANGED <<persistVars, settingsVars, userVars, redirVars>>

SpecMapper == InitMapperSpec /\ [][NextMapper]_vars

InitUserSpec ==
    UserIdle /\ PersistIdle /\ SettingsIdle /\ AttrIdle /\ RedirIdle

NextUser ==
    /\ \/ \E row \in UserRows : CreateUser(row)
       \/ \E pk \in 1..MaxUsers, row \in UserRows : EditUser(pk, row)
    /\ UNCHANGED <<persistVars, settingsVars, attrVars, redirVars>>

SpecUsers == InitUserSpec /\ [][NextUser]_vars

\* --------------------------------------------------------- properties
\* the values the dictionary d has at top-level key `top`, sub-key `sub`
Lookup(d, top, sub) == {t[3] : t \in {u \in d : u[1] = top /\ u[2] = sub}}

OverlayKeys == {"strict", "sp", "security", "contactPerson"}

\* C1: in the built settings every key the SP overlay computes (strict,
\* sp.*, security.*, contactPerson.*) has the overlay's value and never the
\* imported blob's; sp.x509cert is the IdP's stored certificate.
C1_OverlayWins ==
    (built.called /\ built.raised = "") =>
        /\ \A t \in built.dict : t[1] \in OverlayKeys => t \in sp_settings(cfg)
        /\ \A t \in sp_settings(cfg) : t \in built.dict
        /\ Lookup(built.dict, "strict", "") = {"True"}
        /\ Lookup(built.dict, "sp", "x509cert") = {cfg.x509_certificate}
        /\ Lookup(built.dict, "sp", "privateKey") = {cfg.private_key}
        /\ Lookup(built.dict, "sp", "entityId") = {get_entity_id(cfg)}
        /\ Lookup(built.dict, "security", "wantAttributeStatement")
              = {cfg.require_attributes}
        /\ Lookup(built.dict, "contactPerson", "technical.givenName")
              = {cfg.contact_name}

\* settings were built from a blob that carries sp.x509cert = "BOGUS"
C1_Witness ==
    /\ built.called
    /\ built.raised = ""
    /\ <<"sp", "x509cert", "BOGUS">> \in cfg.saml_settings.obj
    /\ cfg.x509_certificate = "CERT-PEM"
    /\ <<"sp", "x509cert", "CERT-PEM">> \in built.dict

\* the target by precedence: the caller's, else the IdP's, else the default
Precedence(redir, idp_redirect, default) ==
    CASE redir \notin {None, ""} -> redir
      [] redir \in {None, ""} /\ idp_redirect # "" -> idp_redirect
      [] OTHER -> default

\* C5: with a mapping flagged is_nameid, get_nameid gives the first value of
\* that mapping's attribute and raises when the assertion lacks the
\* attribute; with no flagged mapping it gives the library's NameID.
C5_ResolveNameId ==
    attrCall.op = "get_nameid" =>
        LET flagged == {q \in DOMAIN attributes :
                          /\ attributes[q].idp = attrCall.idp
                          /\ attributes[q].is_nameid}
            saml == attrCall.saml
        IN  IF flagged = {}
            THEN attrCall.result = [raised |-> "", value |-> saml.nameid]
            ELSE \E q \in flagged :
                   /\ \A r \in flagged : q <= r
                   /\ attributes[q].saml_attribute \notin DOMAIN saml.attrs
                        => attrCall.result.raised # ""
                   /\ ( /\ attributes[q].saml_attribute \in DOMAIN saml.attrs
                        /\ saml.attrs[attributes[q].saml_attribute] # <<>> )
                        => /\ attrCall.result.raised = ""
                           /\ attrCall.result.value
                                = saml.attrs[attributes[q].saml_attribute][1]

\* a mapping on "email" is flagged, the assertion carries email = ["a@x.com"]
C5_Witness ==
    /\ attrCall.op = "get_nameid"
    /\ \E q \in DOMAIN attributes :
          /\ attributes[q].idp = attrCall.idp
          /\ attributes[q].is_nameid
          /\ attributes[q].saml_attribute = "email"
    /\ "email" \in DOMAIN attrCall.saml.attrs
    /\ attrCall.saml.attrs["email"] = <<"a@x.com">>
    /\ attrCall.result = [raised |-> "", value |-> "a@x.com"]

\* positions of the iteration order whose row maps to field k and whose
\* attribute the assertion carries
Contributors(order, saml, k) ==
    {n \in DOMAIN order :
        /\ attributes[order[n]].mapped_name = k
        /\ attributes[order[n]].saml_attribute \in DOMAIN saml.attrs}

\* C6: mapped_attributes has a key for a field name exactly when a mapping
\* of the IdP with that non-empty mapped name names an attribute the
\* assertion carries; nothing raises; among several mappings to one field
\* the one later in the iteration order gives the value.
C6_MapAttributes ==
    attrCall.op = "mapped_attributes" =>
        LET res == attrCall.result
            saml == attrCall.saml
            order == attrCall.order
        IN  /\ DictKeys(res) =
                 {attributes[q].mapped_name :
                    q \in {r \in DOMAIN attributes :
                              /\ attributes[r].idp = attrCall.idp
                              /\ attributes[r].mapped_name # ""
                              /\ attributes[r].saml_attribute
                                    \in DOMAIN saml.attrs}}
            /\ Cardinality(DictKeys(res)) = Len(res)
            /\ \A n \in DOMAIN res :
                  \E m \in Contributors(order, saml, res[n][1]) :
                     /\ \A j \in Contributors(order, saml, res[n][1]) : j <= m
                     /\ res[n][2] = saml.attrs[attributes[order[m]].saml_attribute]

\* two mappings of the IdP target one field, both attributes are present
\* with different values, and the later one's value is kept
C6_Witness ==
    /\ attrCall.op = "mapped_attributes"
    /\ Len(attrCall.order) = 2
    /\ attributes[attrCall.order[1]].mapped_name
         = attributes[attrCall.order[2]].mapped_name
    /\ DOMAIN attrCall.saml.attrs = SamlAttributes
    /\ attrCall.saml.attrs["email"] # attrCall.saml.attrs["uid"]
    /\ Len(attrCall.result) = 1
    /\ attrCall.result[1][2]
         = attrCall.saml.attrs[attributes[attrCall.order[2]].saml_attribute]

UsersUnique(rows) ==
    \A p, q \in DOMAIN rows :
        (p # q /\ rows[p].idp = rows[q].idp) =>
            /\ rows[p].nameid # rows[q].nameid
            /\ ~ ( /\ rows[p].content_type = rows[q].content_type
                   /\ rows[p].user_id = rows[q].user_id )

\* C8: no two IdPUser rows share (IdP, NameID) or (IdP, referenced user);
\* creating a second row for an existing (IdP, NameID) fails with a
\* constraint violation and leaves the rows unchanged.
C8_FederatedIdentityUnique ==
    [][ /\ UsersUnique(users')
        /\ userOp'.outcome = "IntegrityError" => users' = users
        /\ ( /\ userOp'.op = "create"
             /\ \E q \in DOMAIN users :
                   /\ users[q].idp = userOp'.row.idp
                   /\ users[q].nameid = userOp'.row.nameid )
             => userOp'.outcome = "IntegrityError" ]_vars

\* a create for an (IdP, NameID) that exists, with another user, was refused
C8_Witness ==
    /\ userOp.op = "create"
    /\ userOp.outcome = "IntegrityError"
    /\ \E q \in DOMAIN users :
          /\ users[q].idp = userOp.row.idp
          /\ users[q].nameid = userOp.row.nameid
          /\ users[q].user_id # userOp.row.user_id

AttrsUnique(rows) ==
    \A p, q \in DOMAIN rows :
        (p # q /\ rows[p].idp = rows[q].idp) =>
            rows[p].saml_attribute # rows[q].saml_attribute

OneNameIdSource(rows) ==
    \A p, q \in DOMAIN rows :
        (p # q /\ rows[p].idp = rows[q].idp) =>
            ~ (rows[p].is_nameid /\ rows[q].is_nameid)

\* C9 as stated: each IdP has at most one mapping per SAML attribute name
\* and at most one mapping flagged as the NameID source.
C9_Original == AttrsUnique(attributes) /\ OneNameIdSource(attributes)

\* C9: each IdP has at most one mapping per SAML attribute name after any
\* sequence of creating and editing mappings (the NameID flag is free).
C9_OnePerSamlAttribute == AttrsUnique(attributes)

\* an IdP has two mappings, and an edit that would give both the same SAML
\* attribute name was refused
C9_Witness ==
    /\ attrOp.op = "edit"
    /\ attrOp.outcome = "IntegrityError"
    /\ \E p, q \in DOMAIN attributes :
          p # q /\ attributes[p].idp = attributes[q].idp

\* C7: the redirect target is the caller-supplied one when supplied, else
\* the IdP's when non-empty, else the global default, for every combination.
C7_RedirectPrecedence ==
    /\ rcall.op = "get_login_redirect" =>
          rcall.result = Precedence(rcall.redir, rcfg.login_redirect,
                                    rcfg.LOGIN_REDIRECT_URL)
    /\ rcall.op = "get_logout_redirect" =>
          rcall.result = Precedence(rcall.redir, rcfg.logout_redirect,
                                    rcfg.LOGOUT_REDIRECT_URL)

\* no redirect supplied, the IdP's and the global default both populated
C7_Witness ==
    /\ rcall.op = "get_logout_redirect"
    /\ rcall.redir = None
    /\ rcfg.logout_redirect = "/idp-bye"
    /\ rcfg.LOGOUT_REDIRECT_URL = "/goodbye"
    /\ rcall.result = "/idp-bye"

\* C2: a generate_certificate call that raises before the certificate is
\* built persists nothing: the stored private key, certificate and expiry
\* are what they were before the call.
C2_FailedGenerateKeepsStored ==
    [][(lastOp'.op = "generate_certificate" /\ lastOp'.outcome # "ok")
          => GenMaterial(db') = GenMaterial(db)]_vars

\* a call raised at signing, after self.private_key and
\* self.certificate_expires were assigned, and the row is untouched
C2_Witness ==
    /\ lastOp.op = "generate_certificate"
    /\ lastOp.outcome = "sign"
    /\ \E i \in Instances :
          /\ inst[i].private_key # db.private_key
          /\ inst[i].certificate_expires # db.certificate_expires
          /\ inst[i].x509_certificate = db.x509_certificate

\* C3: the stored private key, certificate and expiry always come from one
\* and the same generate_certificate call (or are all initial): the stored
\* certificate carries the stored key and the stored expiry.
C3_CertFromOneCall ==
    /\ db.x509_certificate.key = db.private_key
    /\ db.x509_certificate.not_after = db.certificate_expires

\* C4: an import_metadata call whose fetch or parse raises leaves the stored
\* metadata XML, settings blob and import timestamp as they were, also when
\* the fetch succeeded and only the parse failed.
C4_FailedImportKeepsStored ==
    [][(lastOp'.op = "import_metadata" /\ lastOp'.outcome # "ok")
          => ImpData(db') = ImpData(db)]_vars

\* the fetch succeeded (self.metadata_xml holds the new document), its parse
\* raised, and the row still has the previous XML
C4_Witness ==
    /\ lastOp.op = "import_metadata"
    /\ lastOp.outcome = "parse_failed"
    /\ db.metadata_xml # Garbage
    /\ \E i \in Instances :
          inst[i].metadata_url # "" /\ inst[i].metadata_xml = Garbage

\* C10: under caller serialization the row holds the key, certificate and
\* expiry of the last successful generate_certificate and the XML, settings
\* and timestamp of the last successful import_metadata.
C10_SerializedNoLostUpdate ==
    /\ GenMaterial(db) = lastGen
    /\ ImpData(db) = lastImp

\* both operations have succeeded, a call has failed since, and an instance
\* still holds other key material than the stored one
C10_Witness ==
    /\ lastGen.private_key # 0
    /\ lastImp.last_import # NULL
    /\ lastOp.outcome \in {"sign", "name", "parse_failed", "fetch_failed"}
    /\ \E i \in Instances : GenMaterial(inst[i]) # lastGen
====
